---- MODULE Spec2Model ----
(***************************************************************************)
(* Model of the active-ETF analyzer: the consensus aggregation and the     *)
(* day-over-day diff of modules/analyzer.py, and the snapshot store with   *)
(* its previous-weekday lookup.                                            *)
(*                                                                         *)
(* Tables.  A DataFrame is [kind |-> "df", columns, rows]: columns is the  *)
(* set of column names, rows the sequence of rows, each row a function     *)
(* from the columns whose cell is not NaN to the cell's value (a missing   *)
(* column in DOMAIN row is a NaN cell).  None is [kind |-> "None"].        *)
(*                                                                         *)
(* Numbers.  A weight is an integer count of 0.0001 percent, so that       *)
(* round(x, 4) is exact on it; a mean is kept as the pair [num, den].      *)
(*                                                                         *)
(* Column names.  The source's Korean column names are written romanized:  *)
(*   "bijung" = bi-jung (weight), "bijung(%)", "guseongbijung" =          *)
(*   guseong-bijung (composition weight), "pyeonggageumaek" = valuation    *)
(*   amount, "jongmokmyeong" = stock name, "jongmok" = stock,              *)
(*   "guseongjongmokmyeong" = constituent stock name.                      *)
(***************************************************************************)
EXTENDS Integers, Sequences, FiniteSets, TLC

VARIABLES
    holdings_list,   \* analyze_holdings: the list of per-ETF holdings tables
    prev_df,         \* analyze_holdings: the previous snapshot, or None
    pc,              \* position of the modelled call
    consensus_df,    \* analyze_holdings: first component of the returned pair
    diff_df,         \* analyze_holdings: second component of the returned pair
    raised,          \* the exception that left the call, "none" if it returned
    store,           \* DATA_DIR: date key -> csv file, or NoFile
    date,            \* load_previous_data / save_daily_data: the date argument
    lookups,         \* the date keys whose file load_previous_data has looked up
    loaded,          \* what load_previous_data returned
    saved,           \* date key -> the table save_daily_data was last called with
    view_call,       \* the last call of a query view: its name and its n
    view,            \* what that call returned
    target_tickers,  \* main: the tickers get_target_etfs returned
    pdf_path,        \* main: the report generate_pdf wrote in this run, or None
    entry_store,     \* DATA_DIR's snapshot files when main was entered
    cache,           \* DATA_DIR: the dates that have cache_{date}_* files
    attempt,         \* _retry_api_call: the loop variable
    trace,           \* _retry_api_call: the invocations of func and the sleeps
    result           \* _retry_api_call: what it returned or raised

\* the variables of a call of analyze_holdings, and of the snapshot store
analyzeVars == <<holdings_list, prev_df, consensus_df, diff_df, raised>>
storeVars == <<store, date, lookups, loaded, saved>>

viewVars == <<view_call, view>>

mainVars == <<target_tickers, pdf_path, entry_store, cache>>
retryVars == <<attempt, trace, result>>

vars == <<analyzeVars, storeVars, viewVars, mainVars, retryVars, pc>>

(***************************************************************************)
(* Bounds of the model.                                                    *)
(***************************************************************************)
MaxRows == 2       \* rows of the combined holdings table
MaxETFs == 2       \* tables in holdings_list

\* stock names, in the lexicographic order of the strings
NameOrder == <<"A", "B", "NA">>
Names == {NameOrder[i] : i \in 1..Len(NameOrder)}
\* cell values of a weight or amount column of the holdings
Weights == {0, 1}
\* TotalWeight values of an earlier day's snapshot
PrevWeights == {0, 2}

(***************************************************************************)
(* DataFrame helpers.                                                      *)
(***************************************************************************)
None == [kind |-> "None"]

DataFrame(cols, rs) == [kind |-> "df", columns |-> cols, rows |-> rs]

\* pd.DataFrame()
EmptyDataFrame == DataFrame({}, <<>>)

\* DataFrame.empty: an axis of length 0
IsEmpty(df) == df.rows = <<>> \/ df.columns = {}

NoCol == "<none>"

IsNaN(row, col) == col \notin DOMAIN row

RECURSIVE SumSeq(_)
SumSeq(s) == IF s = <<>> THEN 0 ELSE Head(s) + SumSeq(Tail(s))

RECURSIVE Flatten(_)
Flatten(ss) == IF ss = <<>> THEN <<>> ELSE Head(ss) \o Flatten(Tail(ss))

\* the cells of column col that are not NaN, in row order
ColumnValues(rs, col) ==
    LET present == SelectSeq(rs, LAMBDA r : ~IsNaN(r, col))
    IN  [i \in 1..Len(present) |-> present[i][col]]

\* Series.sum(): NaN cells are skipped, an all-NaN column sums to 0
SeriesSum(rs, col) == SumSeq(ColumnValues(rs, col))

\* Series.count(): the cells that are not NaN
SeriesCount(rs, col) == Len(ColumnValues(rs, col))

\* pd.concat(holdings_list, ignore_index=True): all rows in list order, the
\* union of the columns; a cell of a column its table lacks is NaN
Concat(list) ==
    DataFrame(UNION {list[i].columns : i \in 1..Len(list)},
              Flatten([i \in 1..Len(list) |-> list[i].rows]))

(***************************************************************************)
(* Schema resolution, analyzer.py lines 73-98.                             *)
(***************************************************************************)
WeightCandidates == <<"bijung", "bijung(%)", "Weight", "guseongbijung">>
NameCandidates == <<"jongmokmyeong", "jongmok", "Name", "guseongjongmokmyeong">>
AmountCol == "pyeonggageumaek"
DerivedWeightCol == "bijung"

\* FirstMatch without the break: the last candidate present wins
LastMatch(cands, cols) ==
    LET hits == {i \in 1..Len(cands) : cands[i] \in cols}
    IN  IF hits = {} THEN NoCol
        ELSE cands[CHOOSE i \in hits : \A j \in hits : i >= j]

\* for col in cands: if col in columns: ...; break
FirstMatch(cands, cols) ==
    LET hits == {i \in 1..Len(cands) : cands[i] \in cols}
    IN  IF hits = {} THEN NoCol
        ELSE cands[CHOOSE i \in hits : \A j \in hits : i <= j]

Percent == 100
Decimals == 4
\* x percent, rounded to Decimals places, counted in units of 10^-Decimals
Scale == Percent * 10^Decimals

\* round(n / d) to the nearest integer, halves to even as numpy rounds; d > 0
RoundDiv(n, d) ==
    LET q == n \div d
        r == n % d
    IN  IF 2 * r < d THEN q
        ELSE IF 2 * r > d THEN q + 1
        ELSE IF q % 2 = 0 THEN q ELSE q + 1

\* combined_df['bijung'] = (combined_df[amount] / total_value * 100).round(4)
\* a NaN amount gives a NaN weight, and so does 0 / 0 when total_value is 0
WithDerivedWeight(df) ==
    LET total_value == SeriesSum(df.rows, AmountCol)
        derive(r) ==
            IF IsNaN(r, AmountCol) \/ total_value = 0
            THEN [c \in DOMAIN r \ {DerivedWeightCol} |-> r[c]]
            ELSE [c \in DOMAIN r \cup {DerivedWeightCol} |->
                    IF c = DerivedWeightCol
                    THEN RoundDiv(r[AmountCol] * Scale, total_value)
                    ELSE r[c]]
    IN  DataFrame(df.columns \cup {DerivedWeightCol},
                  [i \in 1..Len(df.rows) |-> derive(df.rows[i])])

\* ResolveWeight that assumes the default weight column when nothing matches,
\* instead of reporting the failure
ResolveWeightAssumeDefault(combined_df) ==
    LET weight_col == FirstMatch(WeightCandidates, combined_df.columns)
    IN  IF weight_col # NoCol
        THEN [ok |-> TRUE, weight_col |-> weight_col, df |-> combined_df]
        ELSE IF AmountCol \in combined_df.columns
        THEN [ok |-> TRUE, weight_col |-> DerivedWeightCol,
              df |-> WithDerivedWeight(combined_df)]
        ELSE [ok |-> TRUE, weight_col |-> DerivedWeightCol, df |-> combined_df]

\* lines 73-87: the weight column and the table it is read from
ResolveWeight(combined_df) ==
    LET weight_col == FirstMatch(WeightCandidates, combined_df.columns)
    IN  IF weight_col # NoCol
        THEN [ok |-> TRUE, weight_col |-> weight_col, df |-> combined_df]
        ELSE IF AmountCol \in combined_df.columns
        THEN [ok |-> TRUE, weight_col |-> DerivedWeightCol,
              df |-> WithDerivedWeight(combined_df)]
        ELSE [ok |-> FALSE, weight_col |-> NoCol, df |-> combined_df]

\* lines 90-94
ResolveName(combined_df) == FirstMatch(NameCandidates, combined_df.columns)

(***************************************************************************)
(* Aggregation, analyzer.py lines 103-111.                                 *)
(***************************************************************************)
NameIndex(n) == CHOOSE i \in 1..Len(NameOrder) : NameOrder[i] = n

\* the elements of a finite set of names as a sequence in ascending order
RECURSIVE SortedNames(_)
SortedNames(S) ==
    IF S = {} THEN <<>>
    ELSE LET m == CHOOSE n \in S : \A o \in S : NameIndex(n) <= NameIndex(o)
         IN  <<m>> \o SortedNames(S \ {m})

\* GroupBy after dropping the repeated rows of a stock (drop_duplicates on
\* the name before grouping)
GroupByDeduplicated(df, name_col, weight_col) ==
    LET keyed == SelectSeq(df.rows, LAMBDA r : ~IsNaN(r, name_col))
        keys == SortedNames({keyed[i][name_col] : i \in 1..Len(keyed)})
        group(k) == << SelectSeq(keyed, LAMBDA r : r[name_col] = k)[1] >>
        agg(k) ==
            LET total == SeriesSum(group(k), weight_col)
                count == SeriesCount(group(k), weight_col)
            IN  IF count = 0
                THEN [StockName |-> k, TotalWeight |-> total, ETF_Count |-> count]
                ELSE [StockName |-> k, TotalWeight |-> total,
                      AvgWeight |-> [num |-> total, den |-> count],
                      ETF_Count |-> count]
    IN  DataFrame({"StockName", "TotalWeight", "AvgWeight", "ETF_Count"},
                  [i \in 1..Len(keys) |-> agg(keys[i])])

\* combined_df.groupby(name_col).agg({weight_col: ['sum','mean','count']})
\* .reset_index(), with the columns renamed as in line 107: one row per
\* distinct name, in ascending order of the names (groupby sorts its keys);
\* rows whose name is NaN are dropped; the mean of no value is NaN
GroupBy(df, name_col, weight_col) ==
    LET keyed == SelectSeq(df.rows, LAMBDA r : ~IsNaN(r, name_col))
        keys == SortedNames({keyed[i][name_col] : i \in 1..Len(keyed)})
        group(k) == SelectSeq(keyed, LAMBDA r : r[name_col] = k)
        agg(k) ==
            LET total == SeriesSum(group(k), weight_col)
                count == SeriesCount(group(k), weight_col)
            IN  IF count = 0
                THEN [StockName |-> k, TotalWeight |-> total, ETF_Count |-> count]
                ELSE [StockName |-> k, TotalWeight |-> total,
                      AvgWeight |-> [num |-> total, den |-> count],
                      ETF_Count |-> count]
    IN  DataFrame({"StockName", "TotalWeight", "AvgWeight", "ETF_Count"},
                  [i \in 1..Len(keys) |-> agg(keys[i])])

Perms(n) ==
    {p \in [1..n -> 1..n] : \A i, j \in 1..n : p[i] = p[j] => i = j}

\* sort_values with ascending=True
SortValuesAsc(rs, col) ==
    {[i \in 1..Len(rs) |-> rs[p[i]]] : p \in
        {q \in Perms(Len(rs)) :
            \A i \in 1..(Len(rs) - 1) : rs[q[i]][col] <= rs[q[i + 1]][col]}}

\* df.sort_values(col, ascending=False) with the default kind='quicksort',
\* which is not stable: every arrangement of the rows in which col does not
\* increase is a possible outcome
SortValuesDesc(rs, col) ==
    {[i \in 1..Len(rs) |-> rs[p[i]]] : p \in
        {q \in Perms(Len(rs)) :
            \A i \in 1..(Len(rs) - 1) : rs[q[i]][col] >= rs[q[i + 1]][col]}}

\* consensus_df['Rank'] = range(1, len(consensus_df) + 1)
WithRank(rs) ==
    [i \in 1..Len(rs) |->
        [c \in DOMAIN rs[i] \cup {"Rank"} |-> IF c = "Rank" THEN i ELSE rs[i][c]]]

\* lines 103-111: the possible consensus tables of a resolved combined table
ConsensusTables(df, name_col, weight_col) ==
    LET grouped == GroupBy(df, name_col, weight_col)
    IN  {DataFrame(grouped.columns \cup {"Rank"}, WithRank(s)) :
            s \in SortValuesDesc(grouped.rows, "TotalWeight")}

(***************************************************************************)
(* The day-over-day diff, analyzer.py lines 128-178.                       *)
(***************************************************************************)
HasKey(row) == ~IsNaN(row, "StockName")

\* pd.merge matches two keys when they are equal, and NaN with NaN
SameKey(a, b) ==
    IF HasKey(a) /\ HasKey(b) THEN a.StockName = b.StockName
    ELSE ~HasKey(a) /\ ~HasKey(b)

\* one merged row: the key and the two suffixed TotalWeight cells; the cell
\* of a side that has no row for the key (or a NaN cell there) is NaN
MergedRow(key, today, prev) ==
    LET cols ==
            (IF HasKey(key) THEN {"StockName"} ELSE {})
            \cup (IF today # <<>> /\ ~IsNaN(today[1], "TotalWeight")
                  THEN {"TotalWeight_Today"} ELSE {})
            \cup (IF prev # <<>> /\ ~IsNaN(prev[1], "TotalWeight")
                  THEN {"TotalWeight_Prev"} ELSE {})
    IN  [c \in cols |->
            IF c = "StockName" THEN key.StockName
            ELSE IF c = "TotalWeight_Today" THEN today[1].TotalWeight
            ELSE prev[1].TotalWeight]

\* pd.merge(today, prev, on='StockName', how='outer',
\*          suffixes=('_Today', '_Prev')) of the two projected tables:
\* a row for every matching pair, and a row for every unmatched row of
\* either side
Merge(today_rows, prev_rows) ==
    LET matches(t) == SelectSeq(prev_rows, LAMBDA p : SameKey(t, p))
        left(t) ==
            IF matches(t) = <<>> THEN << MergedRow(t, <<t>>, <<>>) >>
            ELSE [j \in 1..Len(matches(t)) |->
                    MergedRow(t, <<t>>, <<matches(t)[j]>>)]
        right_only ==
            SelectSeq(prev_rows,
                      LAMBDA p : SelectSeq(today_rows, LAMBDA t : SameKey(t, p)) = <<>>)
    IN  Flatten([i \in 1..Len(today_rows) |-> left(today_rows[i])])
        \o [j \in 1..Len(right_only) |->
                MergedRow(right_only[j], <<>>, <<right_only[j]>>)]

\* Series.fillna(0) on one cell
FillNa(row, col) == IF IsNaN(row, col) THEN 0 ELSE row[col]

\* Series.round(4): a weight is a whole number of 10^-4 percent
Round4(x) == x

\* classify_status with >= for > in the first test
classify_status_ge(row) ==
    IF row.TotalWeight_Prev = 0 /\ row.TotalWeight_Today >= 0 THEN "New"
    ELSE IF row.TotalWeight_Today = 0 /\ row.TotalWeight_Prev > 0 THEN "Out"
    ELSE "Maintain"

\* lines 159-165
classify_status(row) ==
    IF row.TotalWeight_Prev = 0 /\ row.TotalWeight_Today > 0 THEN "New"
    ELSE IF row.TotalWeight_Today = 0 /\ row.TotalWeight_Prev > 0 THEN "Out"
    ELSE "Maintain"

\* lines 150-173 on one merged row: fill, delta, status, rename
DiffRow(m) ==
    LET filled == [TotalWeight_Today |-> FillNa(m, "TotalWeight_Today"),
                   TotalWeight_Prev |-> FillNa(m, "TotalWeight_Prev")]
        delta == Round4(filled.TotalWeight_Today - filled.TotalWeight_Prev)
        cells == [TotalWeight |-> filled.TotalWeight_Today,
                  Prev_Weight |-> filled.TotalWeight_Prev,
                  Weight_Diff |-> delta,
                  Status |-> classify_status(filled)]
    IN  [c \in DOMAIN cells \cup (DOMAIN m \cap {"StockName"}) |->
            IF c = "StockName" THEN m.StockName ELSE cells[c]]

DiffColumns == {"StockName", "TotalWeight", "Prev_Weight", "Weight_Diff", "Status"}

\* prev_df[['StockName', 'TotalWeight']] raises KeyError when prev_df lacks
\* one of the two columns
CanProject(df) == {"StockName", "TotalWeight"} \subseteq df.columns

\* _calculate_diff(today_df, prev_df), for a prev_df that has both columns:
\* the possible results of the final sort_values('Weight_Diff', descending)
_calculate_diff(today_df, prev) ==
    LET merged == Merge(today_df.rows, prev.rows)
        rows == [i \in 1..Len(merged) |-> DiffRow(merged[i])]
    IN  {DataFrame(DiffColumns, s) : s \in SortValuesDesc(rows, "Weight_Diff")}

\* lines 120-123: the diff table when there is no previous snapshot
NoPrevDiff(consensus) ==
    DataFrame(consensus.columns \cup {"Weight_Diff", "Status", "Prev_Weight"},
        [i \in 1..Len(consensus.rows) |->
            [c \in DOMAIN consensus.rows[i] \cup {"Weight_Diff", "Status", "Prev_Weight"} |->
                IF c = "Weight_Diff" THEN 0
                ELSE IF c = "Status" THEN "New"
                ELSE IF c = "Prev_Weight" THEN 0
                ELSE consensus.rows[i][c]]])

Returned(c, d) == [consensus_df |-> c, diff_df |-> d, raised |-> "none"]

Raised(e) == [consensus_df |-> None, diff_df |-> None, raised |-> e]

\* read_csv gives a column whose cells are all NaN the dtype float64, and
\* pd.merge raises ValueError for a string key column against a float64 one
KeyDtypesClash(today_df, prev) ==
    /\ today_df.rows # <<>>
    /\ prev.rows # <<>>
    /\ \A i \in 1..Len(prev.rows) : ~HasKey(prev.rows[i])

\* lines 116-125: the diff step for one consensus table
DiffOutcomes(consensus, prev) ==
    IF prev # None /\ ~IsEmpty(prev)
    THEN IF ~CanProject(prev) THEN {Raised("KeyError")}
         ELSE IF KeyDtypesClash(consensus, prev) THEN {Raised("ValueError")}
         ELSE {Returned(consensus, d) : d \in _calculate_diff(consensus, prev)}
    ELSE {Returned(consensus, NoPrevDiff(consensus))}

\* analyze_holdings(holdings_list, prev_df): every possible outcome of the call
analyze_holdings(list, prev) ==
    IF list = <<>> THEN {Returned(EmptyDataFrame, EmptyDataFrame)}
    ELSE LET combined_df == Concat(list)
             w == ResolveWeight(combined_df)
             name_col == ResolveName(w.df)
         IN  IF ~w.ok THEN {Returned(EmptyDataFrame, EmptyDataFrame)}
             ELSE IF name_col = NoCol THEN {Returned(EmptyDataFrame, EmptyDataFrame)}
             ELSE UNION {DiffOutcomes(c, prev) :
                            c \in ConsensusTables(w.df, name_col, w.weight_col)}

(***************************************************************************)
(* The snapshot file, analyzer.py lines 43 and 198.                        *)
(*                                                                         *)
(* A csv file is [columns, records]; a field of a record is [text |-> s]   *)
(* for the characters s of a string cell, or [number |-> n] for the        *)
(* numeral of a numeric cell.  The utf-8-sig signature is written by       *)
(* to_csv and removed by read_csv, and is left out.                        *)
(***************************************************************************)
(* Query views, analyzer.py lines 204-223.                                 *)
(***************************************************************************)
TOP_N == 10

\* df.head(n), n >= 0
head(df, n) ==
    DataFrame(df.columns,
              SubSeq(df.rows, 1, IF n < Len(df.rows) THEN n ELSE Len(df.rows)))

get_top_holdings(consensus, n) == head(consensus, n)

\* get_top_changes keeping the unchanged rows too (Weight_Diff >= 0)
get_top_changes_ge(diff, n) ==
    head(DataFrame(diff.columns,
                   SelectSeq(diff.rows,
                       LAMBDA r : ~IsNaN(r, "Weight_Diff") /\ r.Weight_Diff >= 0)), n)

get_top_changes(diff, n) ==
    head(DataFrame(diff.columns,
                   SelectSeq(diff.rows,
                       LAMBDA r : ~IsNaN(r, "Weight_Diff") /\ r.Weight_Diff > 0)), n)

get_new_entries(diff) ==
    DataFrame(diff.columns,
              SelectSeq(diff.rows, LAMBDA r : ~IsNaN(r, "Status") /\ r.Status = "New"))

get_exits(diff) ==
    DataFrame(diff.columns,
              SelectSeq(diff.rows, LAMBDA r : ~IsNaN(r, "Status") /\ r.Status = "Out"))

(***************************************************************************)
NoFile == [kind |-> "NoFile"]

\* the cells of the tables that hold strings
TextColumns == {"StockName", "Status"}

\* DataFrame.to_csv(path, index=False): a NaN cell is written as the empty
\* field, a string as its characters, a number as its numeral
to_csv(df) ==
    [kind |-> "csv", columns |-> df.columns,
     records |-> [i \in 1..Len(df.rows) |->
        [c \in df.columns |->
            IF IsNaN(df.rows[i], c) THEN [text |-> ""]
            ELSE IF c \in TextColumns THEN [text |-> df.rows[i][c]]
            ELSE [number |-> df.rows[i][c]]]]]

\* the default na_values of pd.read_csv
NaValues == {"", "#N/A", "#N/A N/A", "#NA", "-1.#IND", "-1.#QNAN", "-NaN",
             "-nan", "1.#IND", "1.#QNAN", "<NA>", "N/A", "NA", "NULL", "NaN",
             "None", "n/a", "nan", "null"}

\* pd.read_csv(path): a field that is one of the NA strings is read as NaN,
\* a numeral as its number, any other field as the string
read_csv(file) ==
    DataFrame(file.columns,
        [i \in 1..Len(file.records) |->
            LET rec == file.records[i]
                kept == {c \in file.columns :
                            "number" \in DOMAIN rec[c] \/ rec[c].text \notin NaValues}
            IN  [c \in kept |->
                    IF "number" \in DOMAIN rec[c] THEN rec[c].number ELSE rec[c].text]])

(***************************************************************************)
(* Dates: a YYYYMMDD string is the integer it spells.                      *)
(***************************************************************************)
Year(d) == d \div 10000
Month(d) == (d \div 100) % 100
Day(d) == d % 100

IsLeap(y) == y % 4 = 0 /\ (y % 100 # 0 \/ y % 400 = 0)

DaysInMonth(y, m) ==
    IF m = 2 THEN (IF IsLeap(y) THEN 29 ELSE 28)
    ELSE IF m \in {4, 6, 9, 11} THEN 30 ELSE 31

RECURSIVE DaysBeforeMonth(_, _)
DaysBeforeMonth(y, m) ==
    IF m = 1 THEN 0 ELSE DaysBeforeMonth(y, m - 1) + DaysInMonth(y, m - 1)

DaysBeforeYear(y) ==
    (y - 1) * 365 + ((y - 1) \div 4) - ((y - 1) \div 100) + ((y - 1) \div 400)

\* datetime.strptime(date, "%Y%m%d").toordinal()
ToOrdinal(d) == DaysBeforeYear(Year(d)) + DaysBeforeMonth(Year(d), Month(d)) + Day(d)

\* datetime.weekday(): Monday is 0, Sunday is 6
Weekday(d) == (ToOrdinal(d) + 6) % 7

\* (d - timedelta(days=1)).strftime("%Y%m%d")
MinusOneDay(d) ==
    IF Day(d) > 1 THEN d - 1
    ELSE IF Month(d) > 1
         THEN Year(d) * 10000 + (Month(d) - 1) * 100 + DaysInMonth(Year(d), Month(d) - 1)
         ELSE (Year(d) - 1) * 10000 + 1231

Saturday == 5

\* the loop with > for >=: only Sunday is skipped
RECURSIVE SkipSundayOnly(_)
SkipSundayOnly(d) == IF Weekday(d) > Saturday THEN SkipSundayOnly(MinusOneDay(d)) ELSE d

\* lines 35-36: while prev_date.weekday() >= 5: prev_date -= timedelta(days=1)
RECURSIVE SkipWeekend(_)
SkipWeekend(d) == IF Weekday(d) >= Saturday THEN SkipWeekend(MinusOneDay(d)) ELSE d

\* lines 31-38: prev_date_str
PrevDateStr(d) == SkipWeekend(MinusOneDay(d))

(***************************************************************************)
(* Inputs of analyze_holdings.                                             *)
(***************************************************************************)
Range(f) == {f[x] : x \in DOMAIN f}

\* the column sets of the holdings tables of one run (the provider's schema
\* is the same for every table): with a weight and a name column, with an
\* amount instead of a weight, without any weight, without any name
Schemas == { {"guseongjongmokmyeong", "bijung"},
             {"jongmokmyeong", AmountCol},
             {"guseongjongmokmyeong"},
             {"bijung"} }

CellValues(col) == IF col \in Range(NameCandidates) THEN Names ELSE Weights

\* the rows over a set of columns, no cell being NaN
RECURSIVE RowsOver(_)
RowsOver(cols) ==
    IF cols = {} THEN {<<>>}
    ELSE LET c == CHOOSE x \in cols : TRUE
         IN  {[x \in cols |-> IF x = c THEN v ELSE r[x]] :
                v \in CellValues(c), r \in RowsOver(cols \ {c})}

TablesOfLen(schema, m) ==
    {DataFrame(schema, rs) : rs \in [1..m -> RowsOver(schema)]}

\* the lists of at most k non-empty tables with at most n rows in all
RECURSIVE HoldingsLists(_, _, _)
HoldingsLists(schema, k, n) ==
    {<<>>} \cup
    (IF k = 0 THEN {}
     ELSE UNION {{<<t>> \o l : t \in TablesOfLen(schema, m),
                               l \in HoldingsLists(schema, k - 1, n - m)} :
                 m \in 1..n})

\* the table of an earlier day: the stocks of S with the weights f
SnapshotOf(f) ==
    LET names == SortedNames(DOMAIN f)
        grouped == [i \in 1..Len(names) |->
                      [StockName |-> names[i], TotalWeight |-> f[names[i]],
                       AvgWeight |-> [num |-> f[names[i]], den |-> 1],
                       ETF_Count |-> 1]]
        sorted == CHOOSE srt \in SortValuesDesc(grouped, "TotalWeight") : TRUE
    IN  DataFrame({"StockName", "TotalWeight", "AvgWeight", "ETF_Count", "Rank"},
                  WithRank(sorted))

PrevSnapshots ==
    {SnapshotOf(f) : f \in UNION {[S -> PrevWeights] : S \in SUBSET Names \ {{}}}}

\* a file with the header line only
HeaderOnly == DataFrame({"StockName", "TotalWeight", "AvgWeight", "ETF_Count", "Rank"}, <<>>)

\* tables with rows that lack one of the two columns the diff reads
Malformed ==
    { DataFrame({"StockName"}, << [StockName |-> "A"] >>),
      DataFrame({"TotalWeight", "Rank"}, << [TotalWeight |-> 1, Rank |-> 1] >>) }

\* today's own table, saved and read back
SelfSnapshots(list) ==
    {read_csv(to_csv(o.consensus_df)) :
        o \in {x \in analyze_holdings(list, None) : ~IsEmpty(x.consensus_df)}}

PrevInputs(list) ==
    {None, EmptyDataFrame, HeaderOnly} \cup Malformed
    \cup {read_csv(to_csv(t)) : t \in PrevSnapshots}
    \cup SelfSnapshots(list)

(***************************************************************************)
(* Inputs of the schema resolution: tables with several weight candidates, *)
(* tables of different schemas in one list, and amounts.                   *)
(***************************************************************************)
\* the rows of a single table with an amount column
MaxAmountRows == 3

AmountValues == {0, 1, 3}

ResolveCellValues(col) == IF col = AmountCol THEN AmountValues ELSE CellValues(col)

RECURSIVE ResolveRowsOver(_)
ResolveRowsOver(cols) ==
    IF cols = {} THEN {<<>>}
    ELSE LET c == CHOOSE x \in cols : TRUE
         IN  {[x \in cols |-> IF x = c THEN v ELSE r[x]] :
                v \in ResolveCellValues(c), r \in ResolveRowsOver(cols \ {c})}

ResolveTables(schema, m) ==
    {DataFrame(schema, rs) : rs \in [1..m -> ResolveRowsOver(schema)]}

\* the lists of at most k non-empty tables with at most n rows in all
RECURSIVE ResolveLists(_, _, _)
ResolveLists(schema, k, n) ==
    {<<>>} \cup
    (IF k = 0 THEN {}
     ELSE UNION {{<<t>> \o l : t \in ResolveTables(schema, m),
                               l \in ResolveLists(schema, k - 1, n - m)} :
                 m \in 1..n})

\* schemas that differ from one ETF table to the next
MixedSchemas == { {"guseongjongmokmyeong", "guseongbijung"},
                  {"guseongjongmokmyeong", "bijung"},
                  {"guseongjongmokmyeong", AmountCol} }

MixedLists ==
    UNION {{<<t1, t2>> : t1 \in ResolveTables(p[1], 1), t2 \in ResolveTables(p[2], 1)} :
           p \in {q \in MixedSchemas \X MixedSchemas : q[1] # q[2]}}

ResolveInputs ==
    ResolveLists({"Name", "Weight", "guseongbijung"}, MaxETFs, MaxRows)
    \cup ResolveLists({"jongmokmyeong", AmountCol}, MaxETFs, MaxRows)
    \cup ResolveLists({"jongmokmyeong", AmountCol}, 1, MaxAmountRows)
    \cup ResolveLists({"jongmokmyeong", AmountCol, "Weight"}, 1, 1)
    \cup MixedLists

(***************************************************************************)
(* Inputs of the snapshot store.                                           *)
(***************************************************************************)
\* the dates of the modelled calls: Wednesday 10 to Tuesday 16 January 2024,
\* the first day of a year and of March in a leap and in a common year
RunDates == {20240110, 20240111, 20240112, 20240113, 20240114, 20240115,
             20240116, 20240101, 20240301, 20230301}

\* the dates save_daily_data is called with
SaveDates == {20240111, 20240112, 20240114, 20240229}

\* the keys of DATA_DIR: the dates written and the dates looked up
StoreKeys == RunDates \cup SaveDates \cup {PrevDateStr(d) : d \in RunDates}

\* the tables save_daily_data is called with
SavedTables ==
    { SnapshotOf([n \in {"A"} |-> 2]),
      SnapshotOf([n \in {"B", "NA"} |-> IF n = "B" THEN 1 ELSE 2]) }

(***************************************************************************)
(* The state machine.                                                      *)
(***************************************************************************)
StoreIdle ==
    /\ store = [k \in StoreKeys |-> NoFile]
    /\ date = None
    /\ lookups = {}
    /\ loaded = None
    /\ saved = [k \in StoreKeys |-> None]

ViewIdle ==
    /\ view_call = None
    /\ view = None

MainIdle ==
    /\ target_tickers = <<>>
    /\ pdf_path = None
    /\ entry_store = [k \in StoreKeys |-> NoFile]
    /\ cache = {}

RetryIdle ==
    /\ attempt = 0
    /\ trace = <<>>
    /\ result = None

AnalyzeIdle ==
    /\ holdings_list = <<>>
    /\ prev_df = None
    /\ consensus_df = None
    /\ diff_df = None
    /\ raised = "none"

\* a call of analyze_holdings about to be made
Init ==
    /\ \E schema \in Schemas : holdings_list \in HoldingsLists(schema, MaxETFs, MaxRows)
    /\ prev_df \in PrevInputs(holdings_list)
    /\ pc = "call"
    /\ consensus_df = None
    /\ diff_df = None
    /\ raised = "none"
    /\ StoreIdle
    /\ ViewIdle
    /\ MainIdle
    /\ RetryIdle

\* analyze_holdings(holdings_list, prev_df), lines 49-125
AnalyzeHoldings ==
    /\ pc = "call"
    /\ \E o \in analyze_holdings(holdings_list, prev_df) :
        /\ consensus_df' = o.consensus_df
        /\ diff_df' = o.diff_df
        /\ raised' = o.raised
    /\ pc' = "done"
    /\ UNCHANGED <<holdings_list, prev_df, storeVars, viewVars, mainVars, retryVars>>

Next == AnalyzeHoldings

Spec == Init /\ [][Next]_vars

\* DATA_DIR before any run
InitStore ==
    /\ AnalyzeIdle
    /\ pc = "idle"
    /\ StoreIdle
    /\ ViewIdle
    /\ MainIdle
    /\ RetryIdle

\* save_daily_data(consensus_df, date), lines 181-201
SaveDailyData ==
    /\ \E t \in SavedTables, d \in SaveDates :
        /\ date' = d
        /\ store' = [store EXCEPT ![d] = to_csv(t)]
        /\ saved' = [saved EXCEPT ![d] = t]
    /\ pc' = "saved"
    /\ lookups' = {}
    /\ loaded' = None
    /\ UNCHANGED <<analyzeVars, viewVars, mainVars, retryVars>>

\* load_previous_data(date), lines 17-46
LoadPreviousData ==
    /\ \E d \in RunDates :
        LET prev_date_str == PrevDateStr(d)
        IN  /\ date' = d
            /\ lookups' = {prev_date_str}
            /\ loaded' = IF store[prev_date_str] # NoFile
                         THEN read_csv(store[prev_date_str])
                         ELSE None
    /\ pc' = "loaded"
    /\ UNCHANGED <<store, saved, analyzeVars, viewVars, mainVars, retryVars>>

NextStore == SaveDailyData \/ LoadPreviousData

SpecStore == InitStore /\ [][NextStore]_vars

\* the n the views are called with: main passes 5, the default is TOP_N
ViewSizes == {0, 1, 2, 5, TOP_N}

\* the previous snapshots of the runs whose tables are queried
ViewPrevs ==
    {None} \cup {read_csv(to_csv(SnapshotOf(f))) : f \in [{"A", "B"} -> PrevWeights]}

\* a call of analyze_holdings whose tables are queried afterwards
InitViews ==
    /\ holdings_list \in HoldingsLists({"guseongjongmokmyeong", "bijung"}, MaxETFs, MaxRows)
    /\ prev_df \in ViewPrevs
    /\ pc = "call"
    /\ consensus_df = None
    /\ diff_df = None
    /\ raised = "none"
    /\ StoreIdle
    /\ ViewIdle
    /\ MainIdle
    /\ RetryIdle

\* main, lines 105-107: the views are reached with a non-empty consensus table
Queryable == pc = "done" /\ raised = "none" /\ ~IsEmpty(consensus_df)

GetTopHoldings ==
    /\ Queryable
    /\ \E n \in ViewSizes :
        /\ view_call' = [fn |-> "get_top_holdings", n |-> n]
        /\ view' = get_top_holdings(consensus_df, n)
    /\ UNCHANGED <<analyzeVars, storeVars, mainVars, retryVars, pc>>

GetTopChanges ==
    /\ Queryable /\ ~IsEmpty(diff_df)
    /\ \E n \in ViewSizes :
        /\ view_call' = [fn |-> "get_top_changes", n |-> n]
        /\ view' = get_top_changes(diff_df, n)
    /\ UNCHANGED <<analyzeVars, storeVars, mainVars, retryVars, pc>>

\* main, lines 119-120
GetNewEntries ==
    /\ Queryable /\ ~IsEmpty(diff_df)
    /\ view_call' = [fn |-> "get_new_entries"]
    /\ view' = get_new_entries(diff_df)
    /\ UNCHANGED <<analyzeVars, storeVars, mainVars, retryVars, pc>>

\* main, lines 119-121
GetExits ==
    /\ Queryable /\ ~IsEmpty(diff_df)
    /\ view_call' = [fn |-> "get_exits"]
    /\ view' = get_exits(diff_df)
    /\ UNCHANGED <<analyzeVars, storeVars, mainVars, retryVars, pc>>

NextViews ==
    \/ AnalyzeHoldings
    \/ GetTopHoldings
    \/ GetTopChanges
    \/ GetNewEntries
    \/ GetExits

SpecViews == InitViews /\ [][NextViews]_vars

\* a call of analyze_holdings on the first day, the tables being of any schema
InitResolve ==
    /\ holdings_list \in ResolveInputs
    /\ prev_df = None
    /\ pc = "call"
    /\ consensus_df = None
    /\ diff_df = None
    /\ raised = "none"
    /\ StoreIdle
    /\ ViewIdle
    /\ MainIdle
    /\ RetryIdle

NextResolve == AnalyzeHoldings

SpecResolve == InitResolve /\ [][NextResolve]_vars

(***************************************************************************)
(* main(date), main.py lines 42-137, run after run over one DATA_DIR.      *)
(***************************************************************************)
\* the dates main is run for: a Friday and the Monday after it
MainDates == {20240112, 20240115}

\* what get_target_etfs returns
TargetLists == {<<>>, <<"T1">>, <<"T1", "T2">>}

\* what get_etf_holdings returns for a ticker: None, or a non-empty table,
\* with or without a weight column
FetchResults ==
    {None,
     DataFrame({"guseongjongmokmyeong", "bijung"},
               << [guseongjongmokmyeong |-> "A", bijung |-> 1] >>),
     DataFrame({"guseongjongmokmyeong", "bijung"},
               << [guseongjongmokmyeong |-> "NA", bijung |-> 1] >>),
     DataFrame({"guseongjongmokmyeong"}, << [guseongjongmokmyeong |-> "A"] >>)}

Ended == {"no_targets", "no_holdings", "empty_consensus", "completed", "failed"}

InitMain ==
    /\ AnalyzeIdle
    /\ pc = "idle"
    /\ StoreIdle
    /\ ViewIdle
    /\ MainIdle
    /\ RetryIdle

\* lines 42-60: main is entered, once the run before it has ended
MainEnter ==
    /\ pc \in Ended \cup {"idle"}
    /\ date' \in MainDates
    /\ entry_store' = store
    /\ holdings_list' = <<>>
    /\ prev_df' = None
    /\ consensus_df' = None
    /\ diff_df' = None
    /\ raised' = "none"
    /\ lookups' = {}
    /\ loaded' = None
    /\ target_tickers' = <<>>
    /\ pdf_path' = None
    /\ pc' = "step1"
    /\ UNCHANGED <<store, saved, cache, viewVars, retryVars>>

\* MainLoadPrevious looking up the file of the run's own date
MainLoadSameDay ==
    /\ pc = "step1"
    /\ LET prev_date_str == date
           found == IF store[prev_date_str] # NoFile
                    THEN read_csv(store[prev_date_str])
                    ELSE None
       IN  /\ lookups' = {prev_date_str}
           /\ loaded' = found
           /\ prev_df' = found
    /\ pc' = "step2"
    /\ UNCHANGED <<holdings_list, consensus_df, diff_df, raised, store, date,
                   saved, viewVars, mainVars, retryVars>>

\* Step 1, line 64: prev_df = load_previous_data(date)
MainLoadPrevious ==
    /\ pc = "step1"
    /\ LET prev_date_str == PrevDateStr(date)
           found == IF store[prev_date_str] # NoFile
                    THEN read_csv(store[prev_date_str])
                    ELSE None
       IN  /\ lookups' = {prev_date_str}
           /\ loaded' = found
           /\ prev_df' = found
    /\ pc' = "step2"
    /\ UNCHANGED <<holdings_list, consensus_df, diff_df, raised, store, date,
                   saved, viewVars, mainVars, retryVars>>

\* Step 2, lines 73-77: get_target_etfs returns the tickers, having written
\* or found its cache file unless it gave up with no tickers, or it raises
\* (the ticker-list call of data_fetcher.py line 131 is outside any try)
MainGetTargets ==
    /\ pc = "step2"
    /\ \/ /\ \E t \in TargetLists \ {<<>>} :
                target_tickers' = t
          /\ cache' = cache \cup {date}
          /\ pc' = "step3"
          /\ UNCHANGED raised
       \/ /\ target_tickers' = <<>>
          /\ cache' \in {cache, cache \cup {date}}
          /\ pc' = "no_targets"
          /\ UNCHANGED raised
       \/ /\ raised' = "Exception"
          /\ pc' = "failed"
          /\ UNCHANGED <<target_tickers, cache>>
    /\ UNCHANGED <<holdings_list, prev_df, consensus_df, diff_df, storeVars,
                   viewVars, pdf_path, entry_store, retryVars>>

\* Step 3, line 83: get_etf_info, which writes its cache file
MainGetInfo ==
    /\ pc = "step3"
    /\ cache' = cache \cup {date}
    /\ pc' = "step4"
    /\ UNCHANGED <<analyzeVars, storeVars, viewVars, target_tickers, pdf_path,
                   entry_store, retryVars>>

\* Step 4, lines 86-99: the tables of the tickers that have one
MainCollectHoldings ==
    /\ pc = "step4"
    /\ \E fetched \in [1..Len(target_tickers) -> FetchResults] :
        /\ holdings_list' = SelectSeq(fetched, LAMBDA h : h # None /\ ~IsEmpty(h))
        /\ pc' = IF holdings_list' = <<>> THEN "no_holdings" ELSE "step5"
    /\ UNCHANGED <<prev_df, consensus_df, diff_df, raised, storeVars, viewVars,
                   mainVars, retryVars>>

\* Step 5, lines 103-107
MainAnalyze ==
    /\ pc = "step5"
    /\ \E o \in analyze_holdings(holdings_list, prev_df) :
        /\ consensus_df' = o.consensus_df
        /\ diff_df' = o.diff_df
        /\ raised' = o.raised
        /\ pc' = IF o.raised # "none" THEN "failed"
                 ELSE IF IsEmpty(o.consensus_df) THEN "empty_consensus"
                 ELSE "step6"
    /\ UNCHANGED <<holdings_list, prev_df, storeVars, viewVars, mainVars, retryVars>>

\* Step 6, line 127: generate_pdf writes the report, or raises
MainReport ==
    /\ pc = "step6"
    /\ \/ /\ pdf_path' = [report |-> date]
          /\ pc' = "step7"
          /\ UNCHANGED raised
       \/ /\ raised' = "Exception"
          /\ pc' = "failed"
          /\ UNCHANGED pdf_path
    /\ UNCHANGED <<holdings_list, prev_df, consensus_df, diff_df, storeVars,
                   viewVars, target_tickers, entry_store, cache, retryVars>>

\* Step 7, line 132: save_daily_data(consensus_df, date)
MainSave ==
    /\ pc = "step7"
    /\ store' = [store EXCEPT ![date] = to_csv(consensus_df)]
    /\ saved' = [saved EXCEPT ![date] = consensus_df]
    /\ pc' = "completed"
    /\ UNCHANGED <<analyzeVars, date, lookups, loaded, viewVars, mainVars, retryVars>>

NextMain ==
    \/ MainEnter
    \/ MainLoadPrevious
    \/ MainGetTargets
    \/ MainGetInfo
    \/ MainCollectHoldings
    \/ MainAnalyze
    \/ MainReport
    \/ MainSave

SpecMain == InitMain /\ [][NextMain]_vars

(***************************************************************************)
(* _retry_api_call(func), data_fetcher.py lines 79-93.                     *)
(***************************************************************************)
MAX_RETRIES == 3
RETRY_DELAY == 1

\* what an invocation of func returns
ReturnValues == {"None", "empty", "table"}

\* the exceptions of func that except Exception catches, and one it does not
ExceptionKinds == {"ConnectionError", "JSONDecodeError", "KeyError"}
BaseExceptionKinds == {"KeyboardInterrupt"}

Outcomes ==
    {[ok |-> v] : v \in ReturnValues}
    \cup {[exc |-> e] : e \in ExceptionKinds \cup BaseExceptionKinds}

Calls == SelectSeq(trace, LAMBDA e : e.ev = "call")

InitRetry ==
    /\ AnalyzeIdle
    /\ pc = "try"
    /\ StoreIdle
    /\ ViewIdle
    /\ MainIdle
    /\ RetryIdle

\* lines 81-84: for attempt in range(MAX_RETRIES): result = func(...); return
\* result, an exception that is not an Exception leaving the call at once
RetryCall ==
    /\ pc = "try"
    /\ attempt < MAX_RETRIES
    /\ \E out \in Outcomes :
        /\ trace' = Append(trace, [ev |-> "call", out |-> out])
        /\ IF "ok" \in DOMAIN out
           THEN result' = [returned |-> out.ok] /\ pc' = "returned"
           ELSE IF out.exc \in ExceptionKinds
           THEN result' = result /\ pc' = "except"
           ELSE result' = [raised |-> out.exc, call |-> Len(Calls) + 1] /\ pc' = "raised"
    /\ UNCHANGED <<attempt, analyzeVars, storeVars, viewVars, mainVars>>

\* RetryExcept that sleeps after the last attempt as well
RetryExceptAlwaysSleeps ==
    /\ pc = "except"
    /\ IF attempt < MAX_RETRIES
       THEN pc' = "sleep" /\ result' = result
       ELSE /\ pc' = "raised"
            /\ result' = [raised |-> trace[Len(trace)].out.exc, call |-> Len(Calls)]
    /\ UNCHANGED <<attempt, trace, analyzeVars, storeVars, viewVars, mainVars>>

\* lines 85-91: except Exception: sleep if attempts are left, else raise
RetryExcept ==
    /\ pc = "except"
    /\ IF attempt < MAX_RETRIES - 1
       THEN pc' = "sleep" /\ result' = result
       ELSE /\ pc' = "raised"
            /\ result' = [raised |-> trace[Len(trace)].out.exc, call |-> Len(Calls)]
    /\ UNCHANGED <<attempt, trace, analyzeVars, storeVars, viewVars, mainVars>>

\* line 89: time.sleep(RETRY_DELAY), then the next attempt
RetrySleep ==
    /\ pc = "sleep"
    /\ trace' = Append(trace, [ev |-> "sleep", secs |-> RETRY_DELAY])
    /\ attempt' = attempt + 1
    /\ pc' = "try"
    /\ UNCHANGED <<result, analyzeVars, storeVars, viewVars, mainVars>>

NextRetry ==
    \/ RetryCall
    \/ RetryExcept
    \/ RetrySleep

SpecRetry == InitRetry /\ [][NextRetry]_vars

\* func and time.sleep return, and the interpreter goes on
SpecRetryFair == InitRetry /\ [][NextRetry]_vars /\ WF_vars(NextRetry)

(***************************************************************************)
(* Properties of analyze_holdings (specification Spec).                    *)
(***************************************************************************)
Returns == pc = "done" /\ raised = "none"

Column(df, col) == ColumnValues(df.rows, col)

\* the columns of the combined table, read off the input tables
InputColumns == UNION {holdings_list[i].columns : i \in 1..Len(holdings_list)}

HasWeightSource ==
    Range(WeightCandidates) \cap InputColumns # {} \/ AmountCol \in InputColumns

HasNameColumn == Range(NameCandidates) \cap InputColumns # {}

\* the call gets past the schema resolution
Resolves == holdings_list # <<>> /\ HasWeightSource /\ HasNameColumn

\* a previous snapshot that the diff is computed against
PrevGiven == prev_df # None /\ ~IsEmpty(prev_df) /\ CanProject(prev_df)

\* the weight cells of all rows of all input tables, in the resolved column
InputWeights ==
    LET w == ResolveWeight(Concat(holdings_list))
    IN  Flatten([i \in 1..Len(holdings_list) |->
            ColumnValues(
                SubSeq(w.df.rows,
                       SumSeq([j \in 1..(i - 1) |-> Len(holdings_list[j].rows)]) + 1,
                       SumSeq([j \in 1..i |-> Len(holdings_list[j].rows)])),
                w.weight_col)])

StockNamesUnique(df) ==
    \A i, j \in 1..Len(df.rows) :
        df.rows[i].StockName = df.rows[j].StockName => i = j

RanksArePositions(df) == \A i \in 1..Len(df.rows) : df.rows[i].Rank = i

NonIncreasing(df, col) ==
    \A i, j \in 1..Len(df.rows) : i < j => df.rows[i][col] >= df.rows[j][col]

\* the position of the first row of the combined input that names stock n
FirstOccurrence(n) ==
    LET combined == Concat(holdings_list)
        name_col == ResolveName(combined)
    IN  CHOOSE i \in 1..Len(combined.rows) :
            /\ combined.rows[i][name_col] = n
            /\ \A j \in 1..(i - 1) : combined.rows[j][name_col] # n

TiesInFirstOccurrenceOrder(df) ==
    \A i, j \in 1..Len(df.rows) :
        (i < j /\ df.rows[i].TotalWeight = df.rows[j].TotalWeight) =>
            FirstOccurrence(df.rows[i].StockName) < FirstOccurrence(df.rows[j].StockName)

\* C2 (as amended): in every non-empty consensus table StockName is unique,
\* Rank is the row's position 1..N, and TotalWeight never increases with
\* the rank; the order of rows of equal TotalWeight is not determined.
C2_RankOrder ==
    (Returns /\ ~IsEmpty(consensus_df)) =>
        /\ StockNamesUnique(consensus_df)
        /\ RanksArePositions(consensus_df)
        /\ NonIncreasing(consensus_df, "TotalWeight")

\* C2 witness: two stocks of different total weight, ranked
C2_Witness ==
    /\ Returns
    /\ Len(consensus_df.rows) = 2
    /\ consensus_df.rows[1].TotalWeight > consensus_df.rows[2].TotalWeight
    /\ NameIndex(consensus_df.rows[1].StockName) > NameIndex(consensus_df.rows[2].StockName)

\* C2 as stated: the same, and rows of equal TotalWeight are ranked in the
\* order of their stock's first occurrence in the concatenated input.
C2_Original ==
    (Returns /\ ~IsEmpty(consensus_df)) =>
        /\ StockNamesUnique(consensus_df)
        /\ RanksArePositions(consensus_df)
        /\ NonIncreasing(consensus_df, "TotalWeight")
        /\ TiesInFirstOccurrenceOrder(consensus_df)

\* the rows of df that carry the key of row r
RowsOfKey(df, r) == {i \in 1..Len(df.rows) : SameKey(df.rows[i], r)}

InTable(df, r) == RowsOfKey(df, r) # {}

\* the one row of the diff table for the key of row r has the given status
\* and a zero in the given column
OneDiffRow(r, status, zero_col) ==
    /\ Cardinality(RowsOfKey(diff_df, r)) = 1
    /\ \A i \in RowsOfKey(diff_df, r) :
        /\ diff_df.rows[i].Status = status
        /\ diff_df.rows[i][zero_col] = 0

\* C3: New/Out coverage -- with a non-empty previous snapshot, a stock of
\* today's table that the snapshot lacks is one diff row, New with
\* Prev_Weight 0; a stock of the snapshot that today's table lacks is one
\* diff row, Out with TotalWeight 0; every stock of either is one diff row.
C3_NewOutCoverage ==
    (Returns /\ PrevGiven /\ ~IsEmpty(consensus_df)) =>
        /\ \A i \in 1..Len(consensus_df.rows) :
            LET t == consensus_df.rows[i]
            IN  /\ Cardinality(RowsOfKey(diff_df, t)) = 1
                /\ ~InTable(prev_df, t) => OneDiffRow(t, "New", "Prev_Weight")
        /\ \A j \in 1..Len(prev_df.rows) :
            LET p == prev_df.rows[j]
            IN  /\ Cardinality(RowsOfKey(diff_df, p)) = 1
                /\ ~InTable(consensus_df, p) => OneDiffRow(p, "Out", "TotalWeight")

\* the status the rule assigns to (Prev_Weight, TotalWeight)
StatusRule(prev_weight, total_weight) ==
    IF prev_weight = 0 /\ total_weight > 0 THEN "New"
    ELSE IF total_weight = 0 /\ prev_weight > 0 THEN "Out"
    ELSE "Maintain"

RowsFollowStatusRule(df) ==
    \A i \in 1..Len(df.rows) :
        df.rows[i].Status = StatusRule(df.rows[i].Prev_Weight, df.rows[i].TotalWeight)

\* every diff row is a stock of today's table or of the previous snapshot
RowsComeFromInputs ==
    \A i \in 1..Len(diff_df.rows) :
        \/ InTable(consensus_df, diff_df.rows[i])
        \/ PrevGiven /\ InTable(prev_df, diff_df.rows[i])

\* C4 (as amended): a diff table computed against a previous snapshot gives
\* every row the status of the rule on its own (Prev_Weight, TotalWeight);
\* without a previous snapshot every row is New whatever its weights; in
\* both cases every row is a stock of today's table or of the snapshot.
C4_StatusRule ==
    Returns =>
        /\ PrevGiven /\ ~IsEmpty(consensus_df) => RowsFollowStatusRule(diff_df)
        /\ ~PrevGiven =>
            \A i \in 1..Len(diff_df.rows) : diff_df.rows[i].Status = "New"
        /\ RowsComeFromInputs

\* C4 witness: a diff against a snapshot with a New, an Out and a Maintain row
C4_Witness ==
    /\ Returns /\ PrevGiven
    /\ {diff_df.rows[i].Status : i \in 1..Len(diff_df.rows)} = {"New", "Out", "Maintain"}

\* C4 as stated: with or without a previous snapshot every row has the
\* status of the rule, and is a stock of one of the two tables.
C4_Original ==
    Returns => RowsFollowStatusRule(diff_df) /\ RowsComeFromInputs

\* C5: without a previous snapshot (prev_df is None) every diff row is New,
\* has Prev_Weight 0 and has Weight_Diff equal to its TotalWeight.
C5_NoPrevDelta ==
    (Returns /\ prev_df = None) =>
        \A i \in 1..Len(diff_df.rows) :
            /\ diff_df.rows[i].Status = "New"
            /\ diff_df.rows[i].Prev_Weight = 0
            /\ diff_df.rows[i].Weight_Diff = diff_df.rows[i].TotalWeight

\* C6: diff round trip -- when the previous snapshot is today's non-empty
\* consensus table written by save_daily_data and read back, every diff row
\* is Maintain with Weight_Diff 0 and the diff table has exactly the stocks
\* of the consensus table.
C6_RoundTrip ==
    (Returns /\ ~IsEmpty(consensus_df)
        /\ prev_df = read_csv(to_csv(consensus_df))) =>
        /\ \A i \in 1..Len(diff_df.rows) :
            /\ diff_df.rows[i].Status = "Maintain"
            /\ diff_df.rows[i].Weight_Diff = 0
        /\ Len(diff_df.rows) = Len(consensus_df.rows)
        /\ \A i \in 1..Len(diff_df.rows) : InTable(consensus_df, diff_df.rows[i])

\* C7: every returned diff table is in descending order of Weight_Diff, and
\* each row's Weight_Diff is its TotalWeight minus its Prev_Weight.
C7_DiffOrdered ==
    Returns =>
        /\ NonIncreasing(diff_df, "Weight_Diff")
        /\ \A i \in 1..Len(diff_df.rows) :
            diff_df.rows[i].Weight_Diff =
                diff_df.rows[i].TotalWeight - diff_df.rows[i].Prev_Weight

\* C9: the previous snapshot never makes the call raise -- an empty or
\* malformed prev_df gives what prev_df = None gives.
C9_PrevNeverRaises ==
    (pc = "done" /\ (prev_df = None \/ IsEmpty(prev_df) \/ ~CanProject(prev_df))) =>
        /\ raised = "none"
        /\ Returned(consensus_df, diff_df) \in analyze_holdings(holdings_list, None)

\* C10: an empty holdings_list, a combined table with no weight candidate
\* and no amount column, and one with no name candidate each return the
\* pair of empty tables without raising, whatever prev_df is.
C10_EmptyResult ==
    (pc = "done" /\ ~Resolves) =>
        /\ raised = "none"
        /\ consensus_df = EmptyDataFrame
        /\ diff_df = EmptyDataFrame

\* C10 witness: holdings without a name column, analysed against a snapshot
C10_Witness ==
    /\ pc = "done"
    /\ holdings_list # <<>> /\ HasWeightSource /\ ~HasNameColumn
    /\ PrevGiven
    /\ consensus_df = EmptyDataFrame

\* the ETFs (positions in holdings_list) whose table has a row of stock n
ETFsHolding(n) ==
    {i \in 1..Len(holdings_list) :
        \E j \in 1..Len(holdings_list[i].rows) :
            \E c \in Range(NameCandidates) \cap holdings_list[i].columns :
                /\ ~IsNaN(holdings_list[i].rows[j], c)
                /\ holdings_list[i].rows[j][c] = n}

\* ETF A holds X at 5 and Y at 3, ETF B holds X at 2: X has total 7, average
\* 3.5, count 2 and rank 1, Y has total 3, average 3, count 1 and rank 2
\* (X and Y are written "A" and "B")
TwoETFExample ==
    LET u == 10^Decimals
        a == DataFrame({"jongmokmyeong", "bijung"},
                       << [jongmokmyeong |-> "A", bijung |-> 5 * u],
                          [jongmokmyeong |-> "B", bijung |-> 3 * u] >>)
        b == DataFrame({"jongmokmyeong", "bijung"},
                       << [jongmokmyeong |-> "A", bijung |-> 2 * u] >>)
    IN  \A o \in analyze_holdings(<<a, b>>, None) :
            /\ o.raised = "none"
            /\ Len(o.consensus_df.rows) = 2
            /\ LET x == o.consensus_df.rows[1]
                   y == o.consensus_df.rows[2]
               IN  /\ x.StockName = "A" /\ x.TotalWeight = 7 * u
                   /\ 2 * x.AvgWeight.num = 7 * u * x.AvgWeight.den
                   /\ x.ETF_Count = 2 /\ x.Rank = 1
                   /\ y.StockName = "B" /\ y.TotalWeight = 3 * u
                   /\ y.AvgWeight.num = 3 * u * y.AvgWeight.den
                   /\ y.ETF_Count = 1 /\ y.Rank = 2

\* C13: in a returned consensus table each stock's ETF_Count is the number
\* of distinct ETFs whose table contains the stock, and its AvgWeight is its
\* TotalWeight divided by its ETF_Count, also when one ETF's table lists the
\* stock on more than one row; the two-ETF example gives the stated table.
C13_ETFCount ==
    /\ TwoETFExample
    /\ (Returns /\ Resolves) =>
          \A i \in 1..Len(consensus_df.rows) :
              LET r == consensus_df.rows[i]
              IN  /\ r.ETF_Count = Cardinality(ETFsHolding(r.StockName))
                  /\ ~IsNaN(r, "AvgWeight")
                  /\ r.AvgWeight.num * r.ETF_Count = r.TotalWeight * r.AvgWeight.den

(***************************************************************************)
(* Properties of the snapshot store (specification SpecStore).             *)
(***************************************************************************)
\* the valid dates of the years around the modelled calls
Calendar ==
    {y * 10000 + m * 100 + d : y \in 2023..2024, m \in 1..12, d \in 1..31}
    \ {x \in {y * 10000 + m * 100 + d : y \in 2023..2024, m \in 1..12, d \in 1..31} :
        Day(x) > DaysInMonth(Year(x), Month(x))}

IsWeekend(d) == Weekday(d) \in {5, 6}

\* k is the latest day strictly before d that is not a Saturday or Sunday
LatestWeekdayBefore(k, d) ==
    /\ k \in Calendar
    /\ ToOrdinal(k) < ToOrdinal(d)
    /\ ~IsWeekend(k)
    /\ \A e \in Calendar :
        (ToOrdinal(k) < ToOrdinal(e) /\ ToOrdinal(e) < ToOrdinal(d)) => IsWeekend(e)
    /\ ToOrdinal(d) - ToOrdinal(k) =
        (IF Weekday(d) = 0 THEN 3 ELSE IF Weekday(d) = 6 THEN 2 ELSE 1)

\* C8: load_previous_data(D) looks up exactly one key, the latest day
\* strictly before D that is not a Saturday or Sunday (20240115 gives
\* 20240112), and returns that key's snapshot if present and None if not,
\* whatever older snapshots exist.
C8_PrevWeekdayLookup ==
    pc = "loaded" =>
        \E k \in StoreKeys :
            /\ lookups = {k}
            /\ LatestWeekdayBefore(k, date)
            /\ date = 20240115 => k = 20240112
            /\ loaded = IF store[k] = NoFile THEN None ELSE read_csv(store[k])

\* C8 witness: Monday's load finds no Friday file although Thursday's exists
C8_Witness ==
    /\ pc = "loaded"
    /\ date = 20240115
    /\ store[20240112] = NoFile
    /\ store[20240111] # NoFile
    /\ loaded = None

SnapshotColumns == {"StockName", "TotalWeight", "AvgWeight", "ETF_Count", "Rank"}

\* the two tables have the same rows in the columns of a snapshot
SameSnapshotRows(a, b) ==
    /\ a # None /\ b # None
    /\ Len(a.rows) = Len(b.rows)
    /\ \A i \in 1..Len(a.rows) : \A c \in SnapshotColumns :
          /\ IsNaN(a.rows[i], c) <=> IsNaN(b.rows[i], c)
          /\ ~IsNaN(a.rows[i], c) => a.rows[i][c] = b.rows[i][c]

\* C12: over any sequence of save and load calls, a save under D changes
\* the entry of D only, replacing what was there, and a load changes no
\* entry (every entry is the file of the table last saved under its key, and
\* absent if none was); a load for D' returns the table most recently saved
\* under the predecessor weekday of D', every row's stock name, total
\* weight, average weight, ETF count and rank unchanged, and None if nothing
\* was saved under that key.
C12_SaveLoadHistory ==
    /\ \A k \in StoreKeys :
          store[k] = IF saved[k] = None THEN NoFile ELSE to_csv(saved[k])
    /\ pc = "loaded" =>
          \E k \in StoreKeys :
              /\ LatestWeekdayBefore(k, date)
              /\ IF saved[k] = None THEN loaded = None
                 ELSE SameSnapshotRows(loaded, saved[k])

(***************************************************************************)
(* Properties of the schema resolution (specification SpecResolve).        *)
(***************************************************************************)
AllInputRows == Flatten([i \in 1..Len(holdings_list) |-> holdings_list[i].rows])

Position(cands, c) == CHOOSE i \in 1..Len(cands) : cands[i] = c

\* the candidate of highest priority among the columns of the input tables
PriorityPick(cands) ==
    LET present == Range(cands) \cap InputColumns
    IN  CHOOSE c \in present :
            \A d \in present : Position(cands, c) <= Position(cands, d)

RowsOfStock(n) ==
    LET name == PriorityPick(NameCandidates)
    IN  SelectSeq(AllInputRows, LAMBDA r : ~IsNaN(r, name) /\ r[name] = n)

TotalAmount == SeriesSum(AllInputRows, AmountCol)

Abs(x) == IF x < 0 THEN -x ELSE x

\* amount / TotalAmount * 100 to the nearest unit, a half going to the even one
Nearest(amount) ==
    LET q == (amount * Scale) \div TotalAmount
    IN  CHOOSE w \in {q, q + 1} :
            /\ 2 * Abs(w * TotalAmount - amount * Scale) <= TotalAmount
            /\ 2 * Abs(w * TotalAmount - amount * Scale) = TotalAmount => w % 2 = 0

DerivedSum(rs) ==
    SumSeq([i \in 1..Len(rs) |->
              IF IsNaN(rs[i], AmountCol) \/ TotalAmount = 0 THEN 0
              ELSE Nearest(rs[i][AmountCol])])

WeightCandidatePresent == Range(WeightCandidates) \cap InputColumns # {}

\* every total is read from the first candidate present, and from the amounts
\* only when no candidate is present
TotalsFromResolvedColumn ==
    \A i \in 1..Len(consensus_df.rows) :
        LET r == consensus_df.rows[i]
        IN  r.TotalWeight =
              IF WeightCandidatePresent
              THEN SeriesSum(RowsOfStock(r.StockName), PriorityPick(WeightCandidates))
              ELSE DerivedSum(RowsOfStock(r.StockName))

\* amounts 100 and 300 give the weights 25.0 and 75.0
AmountExample ==
    LET t == DataFrame({"jongmokmyeong", AmountCol},
                       << [jongmokmyeong |-> "A", pyeonggageumaek |-> 100],
                          [jongmokmyeong |-> "B", pyeonggageumaek |-> 300] >>)
    IN  ColumnValues(WithDerivedWeight(t).rows, DerivedWeightCol)
          = << 25 * 10^Decimals, 75 * 10^Decimals >>

ConsensusTotal == SeriesSum(consensus_df.rows, "TotalWeight")

UsesAmounts == Returns /\ Resolves /\ ~WeightCandidatePresent

\* C11: the weight column is the first candidate of the priority list that
\* is a column of the combined table, also when several are present; the
\* weights are derived from the amounts only when none is, as amount / total
\* amount * 100 rounded to 4 decimals (100 and 300 give 25.0 and 75.0); the
\* derived weights then sum to 100 up to half a unit of the last decimal per
\* row when the total amount is not 0, and are all NaN (sum 0) when it is 0
C11_WeightResolution ==
    /\ AmountExample
    /\ Returns /\ Resolves => TotalsFromResolvedColumn
    /\ UsesAmounts =>
          IF TotalAmount = 0 THEN ConsensusTotal = 0
          ELSE 2 * Abs(ConsensusTotal - Scale) <= Len(AllInputRows)

\* several weight candidates are present and the one of highest priority
\* gives other totals than the next one
C11_Witness ==
    /\ Returns /\ Resolves
    /\ {"Weight", "guseongbijung"} \subseteq InputColumns
    /\ \E i \in 1..Len(consensus_df.rows) :
          LET r == consensus_df.rows[i]
          IN  /\ r.TotalWeight = SeriesSum(RowsOfStock(r.StockName), "Weight")
              /\ r.TotalWeight # SeriesSum(RowsOfStock(r.StockName), "guseongbijung")

\* C11 as stated: the derived weights of all rows sum to 100
C11_Original ==
    /\ AmountExample
    /\ Returns /\ Resolves => TotalsFromResolvedColumn
    /\ UsesAmounts => ConsensusTotal = Scale

(***************************************************************************)
(* Properties of the query views (specification SpecViews).                *)
(***************************************************************************)
\* res is src restricted to the first limit of its rows at the positions
\* kept, in the order of src
IsOrderedSelection(res, src, kept, limit) ==
    LET chosen == {i \in kept : Cardinality({j \in kept : j < i}) < limit}
    IN  /\ res.columns = src.columns
        /\ Len(res.rows) = Cardinality(chosen)
        /\ \A i \in chosen :
              res.rows[Cardinality({j \in chosen : j <= i})] = src.rows[i]

\* what the call c returns on the tables consensus and diff
ViewResultIs(res, c, consensus, diff) ==
    /\ c.fn = "get_top_holdings" =>
          /\ IsOrderedSelection(res, consensus, 1..Len(consensus.rows), c.n)
          /\ Len(res.rows) =
                (IF c.n < Len(consensus.rows) THEN c.n ELSE Len(consensus.rows))
    /\ c.fn = "get_top_changes" =>
          /\ IsOrderedSelection(res, diff,
                {i \in 1..Len(diff.rows) : diff.rows[i].Weight_Diff > 0}, c.n)
          /\ Len(res.rows) <= c.n
          /\ \A i \in 1..Len(res.rows) : res.rows[i].Weight_Diff > 0
    /\ c.fn = "get_new_entries" =>
          IsOrderedSelection(res, diff,
              {i \in 1..Len(diff.rows) : diff.rows[i].Status = "New"}, Len(diff.rows))
    /\ c.fn = "get_exits" =>
          IsOrderedSelection(res, diff,
              {i \in 1..Len(diff.rows) : diff.rows[i].Status = "Out"}, Len(diff.rows))

EarlyExits == {"no_targets", "no_holdings", "empty_consensus"}

\* the step enters main
Enters == pc' = "step1"

\* the step fetches, analyzes, reports or writes
ActsOnData ==
    \/ cache' # cache
    \/ target_tickers' # target_tickers
    \/ holdings_list' # holdings_list
    \/ consensus_df' # consensus_df
    \/ pdf_path' # pdf_path
    \/ store' # store

\* k is a weekday before d, and the days between them are weekend days
PredecessorWeekday(k, d) ==
    LET gap == ToOrdinal(d) - ToOrdinal(k)
    IN  /\ gap >= 1
        /\ ~IsWeekend(k)
        /\ \A g \in 1..(gap - 1) : (Weekday(d) + 7 * gap - g) % 7 \in {5, 6}

\* the previous snapshot of the run's date has been read, and nothing else
PreviousRead ==
    \E k \in StoreKeys :
        /\ lookups = {k}
        /\ PredecessorWeekday(k, date)
        /\ k # date
        /\ prev_df = IF store[k] = NoFile THEN None ELSE read_csv(store[k])

\* C15: a run of main(D) reads the previous snapshot before it does
\* anything else, and never under the key D; it writes the snapshot of D,
\* and no other entry, only as its last step, after it has computed a
\* non-empty consensus table and generated the report; a run that ends
\* early (no target ETFs, no holdings table, empty consensus table) has not
\* raised and leaves every snapshot entry as it was when the run began.
C15_RunOrder ==
    [][ /\ (pc = "step1") => (lookups' # {} /\ ~ActsOnData)
        /\ (ActsOnData /\ ~Enters) => PreviousRead
        /\ (lookups' # {}) => date' \notin lookups'
        /\ (store' # store) =>
              /\ \A k \in StoreKeys \ {date} : store'[k] = store[k]
              /\ consensus_df # None /\ ~IsEmpty(consensus_df)
              /\ store'[date] = to_csv(consensus_df)
              /\ pdf_path = [report |-> date]
              /\ pc' = "completed"
        /\ (pc = "completed") => Enters
        /\ (pc' \in EarlyExits) => (raised' = "none" /\ store' = entry_store')
        /\ (pc' = "no_targets") => target_tickers' = <<>>
        /\ (pc' = "no_holdings") => holdings_list' = <<>>
        /\ (pc' = "empty_consensus") => IsEmpty(consensus_df')
      ]_vars

\* Monday's run is made again after it has saved: it has read Friday's
\* snapshot, not its own, and has replaced its own
C15_Witness ==
    /\ pc = "completed"
    /\ date = 20240115
    /\ lookups = {20240112}
    /\ prev_df # None
    /\ entry_store[20240115] # NoFile
    /\ store[20240115] # entry_store[20240115]

(***************************************************************************)
(* Properties of _retry_api_call (specification SpecRetryFair).            *)
(***************************************************************************)
Failed(e) == e.ev = "call" /\ "exc" \in DOMAIN e.out

RetryDone == pc \in {"returned", "raised"}

RetrySafe ==
    /\ Len(Calls) <= MAX_RETRIES
    /\ \A i \in 1..Len(trace) :
          (trace[i].ev = "call" /\ ~Failed(trace[i])) =>
              (i = Len(trace) /\ pc = "returned")
    /\ pc = "returned" =>
          /\ trace # <<>>
          /\ ~Failed(trace[Len(trace)])
          /\ result = [returned |-> trace[Len(trace)].out.ok]
    /\ pc = "raised" =>
          /\ trace # <<>>
          /\ Failed(trace[Len(trace)])
          /\ result = [raised |-> trace[Len(trace)].out.exc, call |-> Len(Calls)]
          /\ result.raised \in ExceptionKinds => Len(Calls) = MAX_RETRIES
    /\ \A i \in 1..Len(trace) :
          trace[i].ev = "sleep" =>
              /\ trace[i].secs = RETRY_DELAY
              /\ i > 1 /\ Failed(trace[i - 1])
              /\ Len(SelectSeq(SubSeq(trace, 1, i), LAMBDA e : e.ev = "call")) < MAX_RETRIES
              /\ RetryDone => i < Len(trace)
    /\ \A i \in 1..(Len(trace) - 1) :
          trace[i].ev = "call" => trace[i + 1].ev = "sleep"

\* C16: _retry_api_call invokes func at most MAX_RETRIES times, returns the
\* result of the first invocation that does not raise and invokes func no
\* more after it, re-raises the exception of the last invocation when all
\* MAX_RETRIES invocations raise, sleeps RETRY_DELAY between two attempts
\* only and not after the last failed one, and always terminates.
C16_RetryTerminates == []RetrySafe /\ <>RetryDone

\* all MAX_RETRIES invocations have raised, the last another exception than
\* the first, with a sleep between each two of them
C16_Witness ==
    /\ pc = "raised"
    /\ Len(Calls) = MAX_RETRIES
    /\ Len(trace) = 2 * MAX_RETRIES - 1
    /\ result.raised # trace[1].out.exc

====
